---- MODULE Spec2Model ----
(***************************************************************************)
(* Model of api/questions.js: one HTTP handler that stores quiz question   *)
(* records as JSON objects in a blob store, one object per record at       *)
(* questions/<id>.json.                                                    *)
(*                                                                         *)
(* Strings that the handler concatenates, matches by prefix or rewrites    *)
(* (ids, object paths) are sequences of character codes, so that prefix    *)
(* listing, lexicographic listing order and String.replace are computed    *)
(* as the code computes them.  JSON values are tagged records.             *)
(***************************************************************************)
EXTENDS Integers, Sequences, FiniteSets, TLC

VARIABLES
    store,      \* the blob store: object path -> [content, uploadedAt]
    now,        \* the clock read by Date.now() and new Date()
    req,        \* the request of the invocation in progress
    resp,       \* the response that invocation has produced
    threw,      \* what threw inside its try block ("none" if nothing did)
    pc,         \* "idle": no invocation; "fetching": a list-all GET awaits
                \* Promise.all; "done": the handler has produced its response
    blobs,      \* list-all GET: the listing its fetches were started for
    pending,    \* list-all GET: indices of blobs whose fetch has not settled
    failed,     \* list-all GET: indices of blobs whose fetch or parse rejected
    created,    \* history: ids of every object ever written by a POST
    posted      \* history: id -> body of the POST that wrote the object now stored

vars == <<store, now, req, resp, threw, pc, blobs, pending, failed>>

----------------------------------------------------------------------------
(* Bounds of the model *)

MaxClock == 1
MaxObjects == 2

----------------------------------------------------------------------------
(* JSON / JavaScript values *)

Undefined == [t |-> "undefined"]
Null == [t |-> "null"]
Str(s) == [t |-> "string", v |-> s]
Num(n) == [t |-> "number", v |-> n]
Arr(a) == [t |-> "array", v |-> a]
Obj(f) == [t |-> "object", v |-> f]

\* JavaScript truthiness, as used by `!x`, `x || y` and `if (x)`
Truthy(v) ==
    CASE v.t = "undefined" -> FALSE
      [] v.t = "null" -> FALSE
      [] v.t = "string" -> Len(v.v) > 0
      [] v.t = "number" -> v.v # 0
      [] OTHER -> TRUE

\* a || b
Or(a, b) == IF Truthy(a) THEN a ELSE b

\* v.k throws a TypeError when v is null or undefined
PropThrows(v) == v.t \in {"null", "undefined"}

\* v.k for a value that is not null or undefined
Prop(v, k) == IF v.t = "object" /\ k \in DOMAIN v.v THEN v.v[k] ELSE Undefined

\* JSON.stringify of an object given as its <<key, value>> pairs in insertion
\* order: properties whose value is undefined are left out.
JSONStringify(pairs) == SelectSeq(pairs, LAMBDA p : p[2] # Undefined)

\* JSON.parse / response.json() of such a text: the object with those properties
JSONParse(text) ==
    Obj([k \in {text[i][1] : i \in DOMAIN text} |->
            (CHOOSE p \in {text[i] : i \in DOMAIN text} : p[1] = k)[2]])

----------------------------------------------------------------------------
(* Strings as sequences of character codes *)

IsPrefix(p, s) == Len(p) <= Len(s) /\ SubSeq(s, 1, Len(p)) = p

\* s < t in the lexicographic order of character codes
LexLess(s, t) ==
    \E i \in 1..(Len(s) + 1) :
        /\ i <= Len(t)
        /\ \A j \in 1..(i - 1) : s[j] = t[j]
        /\ (i = Len(s) + 1 \/ s[i] < t[i])

\* s.replace(pat, rep) with a string pattern: the first occurrence only
Replace(s, pat, rep) ==
    LET starts == {i \in 1..(Len(s) - Len(pat) + 1) : SubSeq(s, i, i + Len(pat) - 1) = pat}
    IN  IF starts = {} THEN s
        ELSE LET i == CHOOSE m \in starts : \A n \in starts : m <= n
             IN  SubSeq(s, 1, i - 1) \o rep \o SubSeq(s, i + Len(pat), Len(s))

\* decimal digits of a natural number
RECURSIVE Digits(_)
Digits(n) == IF n < 10 THEN <<48 + n>> ELSE Digits(n \div 10) \o <<48 + (n % 10)>>

QuestionsPrefix == <<113, 117, 101, 115, 116, 105, 111, 110, 115, 47>>  \* "questions/"
JsonSuffix == <<46, 106, 115, 111, 110>>                                \* ".json"

\* `questions/${id}.json`
PathOf(id) == QuestionsPrefix \o id \o JsonSuffix

\* `questions/${questionId}`
PrefixOf(id) == QuestionsPrefix \o id

\* `q_${Date.now()}_${Math.random().toString(36).substr(2, 9)}`
GeneratedId(clock, rand) == <<113, 95>> \o Digits(clock) \o <<95>> \o rand

\* new Date().toISOString(), abbreviated to "T<clock>Z"
ISOString(clock) == <<84>> \o Digits(clock) \o <<90>>

----------------------------------------------------------------------------
(* The blob store (@vercel/blob): put, list, del, and fetch of a blob url *)

BaseUrl == <<104, 116, 116, 112, 115, 58, 47, 47, 98, 47>>   \* "https://b/"

\* the public url the store assigns to the object at a path
BlobUrl(path) == BaseUrl \o path

\* list({prefix}): the objects whose path starts with prefix; the store returns
\* them ordered by path
StoreList(prefix) ==
    LET match == {p \in DOMAIN store : IsPrefix(prefix, p)}
        rank(p) == Cardinality({q \in match : LexLess(q, p)}) + 1
        at(i) == CHOOSE p \in match : rank(p) = i
    IN  [i \in 1..Cardinality(match) |->
            [pathname |-> at(i), url |-> BlobUrl(at(i)), uploadedAt |-> store[at(i)].uploadedAt]]

\* fetch(url) of a listed blob: the stored text
FetchText(url) == store[SubSeq(url, Len(BaseUrl) + 1, Len(url))].content

\* put(path, text): writes, or overwrites, the object at exactly that path
StorePut(path, text) ==
    [p \in DOMAIN store \cup {path} |->
        IF p = path THEN [content |-> text, uploadedAt |-> now] ELSE store[p]]

\* del(paths): removes the objects at exactly those paths, where there is one
StoreDel(paths) == [p \in DOMAIN store \ paths |-> store[p]]

----------------------------------------------------------------------------
(* Requests the model sends.  Invocations are taken one at a time: the handler
   keeps no state of its own, and the claims are about what one request does
   to the store and what the next one then reads. *)

\* caller-chosen ids: "a" and "a-" ("questions/a" is a prefix of both paths, and
\* "questions/a-.json" sorts before "questions/a.json"), and ".jsonb", an id
\* that holds the text ".json"
CallerIds == {<<97>>, <<97, 45>>, <<46, 106, 115, 111, 110, 98>>}

\* stand-ins for the 9 base-36 characters of Math.random()
RandSuffixes == {<<120>>, <<121>>}

\* the id of the record stored at a path
IdOfPath(path) == SubSeq(path, Len(QuestionsPrefix) + 1, Len(path) - Len(JsonSuffix))

\* the value of url.searchParams.get('id'): null when the parameter is absent,
\* the empty string for `?id=`, else an id a caller chose or was given back
QueryIds ==
    {Null, Str(<<>>)}
        \cup {Str(i) : i \in CallerIds \cup created \cup {IdOfPath(p) : p \in DOMAIN store}}

\* request bodies without an id: every field given and truthy; the optional
\* fields omitted but for correctAnswer, which is the index 0, and no options
\* yet (an empty array is truthy); a required field missing or empty
FullBody ==
    [question |-> Str(<<81>>), options |-> Arr(<<Str(<<51>>), Str(<<52>>)>>),
     correctAnswer |-> Str(<<52>>), subject |-> Str(<<77>>),
     difficulty |-> Str(<<104>>), tags |-> Arr(<<Str(<<116>>)>>)]
SparseBody ==
    [question |-> Str(<<81>>), options |-> Arr(<<>>), correctAnswer |-> Num(0)]
NoQuestionBody == [options |-> Arr(<<Str(<<51>>), Str(<<52>>)>>)]
NoOptionsBody == [question |-> Str(<<81>>)]
EmptyQuestionBody == [question |-> Str(<<>>), options |-> Arr(<<Str(<<51>>), Str(<<52>>)>>)]

ValidShapes == {FullBody, SparseBody}
BodyShapes == ValidShapes \cup {NoQuestionBody, NoOptionsBody, EmptyQuestionBody}

WithId(f, idv) == [k \in DOMAIN f \cup {"id"} |-> IF k = "id" THEN idv ELSE f[k]]

\* a request text that is not JSON: request.json() throws
Malformed == [t |-> "malformed"]

\* bodies that carry no usable id (absent or empty): the handler generates one
AnonymousBodies ==
    {Obj(f) : f \in BodyShapes} \cup {Obj(WithId(FullBody, Str(<<>>)))}

\* bodies that carry a caller-chosen id
IdentifiedBodies ==
    {Obj(WithId(f, Str(i))) : f \in ValidShapes, i \in CallerIds}
        \cup {Obj(WithId(NoQuestionBody, Str(<<97>>)))}

\* JSON texts that are not objects, and texts that are not JSON
OddBodies == {Null, Malformed}

Bodies == AnonymousBodies \cup IdentifiedBodies \cup OddBodies

NoResponse == [status |-> 0, body |-> Null]

\* an invocation that is not a list-all GET starts no fetches
NoFanOut == blobs' = << >> /\ pending' = {} /\ failed' = {}

Request(method, id, body) == [method |-> method, id |-> id, body |-> body]

NoRequest == Request("NONE", Null, Null)

\* the catch-all of the try block; message is error.message
ServerError(message) == [status |-> 500, body |-> [error |-> "Loi server", message |-> message]]

----------------------------------------------------------------------------
Init ==
    /\ store = << >>
    /\ now = 0
    /\ req = NoRequest
    /\ resp = NoResponse
    /\ threw = "none"
    /\ pc = "idle"
    /\ blobs = << >>
    /\ pending = {}
    /\ failed = {}
    /\ created = {}
    /\ posted = << >>

\* time passes between requests
Tick ==
    /\ pc = "idle"
    /\ now < MaxClock
    /\ now' = now + 1
    /\ UNCHANGED <<store, req, resp, threw, pc, blobs, pending, failed>>

----------------------------------------------------------------------------
(* OPTIONS and unsupported methods *)

Options ==
    /\ pc = "idle"
    /\ req' = Request("OPTIONS", Null, Null)
    /\ resp' = [status |-> 200, body |-> Null]
    /\ threw' = "none"
    /\ NoFanOut
    /\ pc' = "done"
    /\ UNCHANGED <<store, now>>

OtherMethods == {"PUT"}

Unsupported ==
    /\ pc = "idle"
    /\ \E m \in OtherMethods :
        req' = Request(m, Null, Null)
    /\ resp' = [status |-> 405, body |-> [error |-> "Method khong duoc ho tro"]]
    /\ threw' = "none"
    /\ NoFanOut
    /\ pc' = "done"
    /\ UNCHANGED <<store, now>>

----------------------------------------------------------------------------
(* POST *)

\* a validation that forgets options
PostValidQuestionOnly(body) == Truthy(Prop(body, "question"))

\* the validation `!body.question || !body.options` passes
PostValid(body) == Truthy(Prop(body, "question")) /\ Truthy(Prop(body, "options"))

\* body.id || `q_${Date.now()}_${random}`
PostId(body, rand) == Or(Prop(body, "id"), Str(GeneratedId(now, rand)))

Medium == <<109, 101, 100, 105, 117, 109>>   \* "medium"

\* the questionData object literal, as <<key, value>> pairs in source order
QuestionData(body, id) ==
    << <<"id", id>>,
       <<"question", Prop(body, "question")>>,
       <<"options", Prop(body, "options")>>,
       <<"correctAnswer", Or(Prop(body, "correctAnswer"), Null)>>,
       <<"subject", Or(Prop(body, "subject"), Str(<<>>))>>,
       <<"difficulty", Or(Prop(body, "difficulty"), Str(Medium))>>,
       <<"tags", Or(Prop(body, "tags"), Arr(<<>>))>>,
       <<"createdAt", Str(ISOString(now))>> >>

\* the path the record is put at
PostPath(id) == PathOf(id.v)

Post ==
    /\ pc = "idle"
    /\ \E body \in Bodies :
        /\ req' = Request("POST", Null, body)
        /\ IF body = Malformed \/ PropThrows(body)
           THEN /\ threw' = IF body = Malformed THEN "json" ELSE "type"
                /\ resp' = ServerError(threw')
                /\ UNCHANGED store
           ELSE IF ~PostValid(body)
           THEN /\ resp' = [status |-> 400,
                            body |-> [error |-> "Thieu du lieu bat buoc (question, options)"]]
                /\ threw' = "none"
                /\ UNCHANGED store
           ELSE \E rand \in (IF Truthy(Prop(body, "id")) THEN {<<>>} ELSE RandSuffixes),
                   putOk \in BOOLEAN :
                LET id == PostId(body, rand)
                    path == PostPath(id)
                IN  /\ Cardinality(DOMAIN store \cup {path}) <= MaxObjects
                    /\ IF putOk
                       THEN /\ store' = StorePut(path, JSONStringify(QuestionData(body, id)))
                            /\ resp' = [status |-> 201,
                                        body |-> [success |-> TRUE,
                                                  message |-> "Cau hoi da duoc luu thanh cong",
                                                  data |-> [id |-> id, url |-> BlobUrl(path)]]]
                            /\ threw' = "none"
                       ELSE /\ resp' = ServerError("put")
                            /\ threw' = "put"
                            /\ UNCHANGED store
    /\ NoFanOut
    /\ pc' = "done"
    /\ UNCHANGED now

----------------------------------------------------------------------------
(* DELETE *)

\* a DELETE that first looks the object up
DeleteStatusIfExists(id) ==
    IF ~Truthy(id) THEN 400 ELSE IF PathOf(id.v) \in DOMAIN store THEN 200 ELSE 404

\* the status DELETE answers when nothing throws: 400 without an id, else 200
DeleteStatus(id) == IF ~Truthy(id) THEN 400 ELSE 200

\* a DELETE of everything GET ?id=X would list
DeleteTargetsByPrefix(id) == {p \in DOMAIN store : IsPrefix(PrefixOf(id.v), p)}

\* the paths DELETE ?id=X asks the store to delete
DeleteTargets(id) == {PathOf(id.v)}

Delete ==
    /\ pc = "idle"
    /\ \E id \in QueryIds, delOk \in BOOLEAN :
        /\ req' = Request("DELETE", id, Null)
        /\ IF DeleteStatus(id) = 400
           THEN /\ resp' = [status |-> 400, body |-> [error |-> "Thieu ID cau hoi"]]
                /\ threw' = "none"
                /\ UNCHANGED store
           ELSE IF delOk
           THEN /\ store' = StoreDel(DeleteTargets(id))
                /\ resp' = [status |-> DeleteStatus(id),
                            body |-> [success |-> TRUE,
                                      message |-> "Cau hoi da duoc xoa thanh cong"]]
                /\ threw' = "none"
           ELSE /\ resp' = ServerError("del")
                /\ threw' = "del"
                /\ UNCHANGED store
    /\ NoFanOut
    /\ pc' = "done"
    /\ UNCHANGED now

----------------------------------------------------------------------------
(* GET ?id=X *)

\* the listing GET ?id=X searches: prefix `questions/${questionId}`
GetListing(id) == StoreList(PrefixOf(id.v))

\* the blob GET ?id=X fetches: the first of the listing
GetChosen(listing) == listing[1]

GetById ==
    /\ pc = "idle"
    /\ \E id \in QueryIds, listOk \in BOOLEAN, fetchOk \in BOOLEAN :
        /\ Truthy(id)
        /\ req' = Request("GET", id, Null)
        /\ IF ~listOk
           THEN resp' = ServerError("list") /\ threw' = "list"
           ELSE LET listing == GetListing(id)
                IN  IF Len(listing) = 0
                    THEN /\ resp' = [status |-> 404, body |-> [error |-> "Khong tim thay cau hoi"]]
                         /\ threw' = "none"
                    ELSE IF ~fetchOk
                    THEN resp' = ServerError("fetch") /\ threw' = "fetch"
                    ELSE /\ resp' = [status |-> 200,
                                     body |-> [success |-> TRUE,
                                               data |-> JSONParse(FetchText(GetChosen(listing).url))]]
                         /\ threw' = "none"
    /\ NoFanOut
    /\ pc' = "done"
    /\ UNCHANGED <<store, now>>

----------------------------------------------------------------------------
(* GET without an id: list, then fetch every listed blob concurrently *)

\* blob.pathname.replace('questions/', '').replace('.json', '')
DerivedId(pathname) == Replace(Replace(pathname, QuestionsPrefix, << >>), JsonSuffix, << >>)

\* { ...data, id: <derived>, uploadedAt: blob.uploadedAt }: the spread put first
ListElementDerivedLast(blob, data) ==
    LET derived == [id |-> Str(DerivedId(blob.pathname)), uploadedAt |-> Num(blob.uploadedAt)]
        spread == IF data.t = "object" THEN data.v ELSE << >>
    IN  Obj([k \in DOMAIN derived \cup DOMAIN spread |->
                IF k \in DOMAIN derived THEN derived[k] ELSE spread[k]])

\* { id: <derived>, uploadedAt: blob.uploadedAt, ...data }: properties of the
\* parsed content replace the derived ones of the same name
ListElement(blob, data) ==
    LET derived == [id |-> Str(DerivedId(blob.pathname)), uploadedAt |-> Num(blob.uploadedAt)]
        spread == IF data.t = "object" THEN data.v ELSE << >>
    IN  Obj([k \in DOMAIN derived \cup DOMAIN spread |->
                IF k \in DOMAIN spread THEN spread[k] ELSE derived[k]])

\* the response of a list-all GET whose fetches all fulfilled
ListResponse(listing) ==
    LET questions == [i \in 1..Len(listing) |->
                        ListElement(listing[i], JSONParse(FetchText(listing[i].url)))]
    IN  [status |-> 200,
         body |-> [success |-> TRUE, count |-> Len(questions), data |-> questions]]

\* Promise.allSettled in its place: it waits for every promise and never rejects
PromiseAllSettled(stillPending, rejected) ==
    IF stillPending = {} THEN "fulfilled" ELSE "pending"

\* Promise.all over the per-blob promises, given those still pending and those
\* rejected: it rejects as soon as one rejects, and resolves once none is pending
PromiseAll(stillPending, rejected) ==
    IF rejected # {} THEN "rejected"
    ELSE IF stillPending = {} THEN "fulfilled"
    ELSE "pending"

\* the handler once Promise.all is in the given state: it goes on awaiting, or
\* answers from the catch block (the fetches still pending are abandoned), or
\* answers with every element
Join(listing, stillPending, rejected) ==
    LET settled == PromiseAll(stillPending, rejected)
    IN  /\ blobs' = listing
        /\ pending' = stillPending
        /\ failed' = rejected
        /\ pc' = IF settled = "pending" THEN "fetching" ELSE "done"
        /\ resp' = CASE settled = "pending" -> NoResponse
                     [] settled = "rejected" -> ServerError("fetch")
                     [] OTHER -> ListResponse(listing)
        /\ threw' = IF settled = "rejected" THEN "fetch" ELSE "none"

GetList ==
    /\ pc = "idle"
    /\ \E id \in {Null, Str(<< >>)}, listOk \in BOOLEAN :
        /\ req' = Request("GET", id, Null)
        /\ IF ~listOk
           THEN /\ resp' = ServerError("list")
                /\ threw' = "list"
                /\ NoFanOut
                /\ pc' = "done"
           ELSE LET listing == StoreList(QuestionsPrefix)
                IN  Join(listing, 1..Len(listing), {})
    /\ UNCHANGED <<store, now>>

\* one of the concurrent fetch-and-parse callbacks settles
FetchSettle ==
    /\ pc = "fetching"
    /\ \E i \in pending, ok \in BOOLEAN :
        Join(blobs, pending \ {i}, IF ok THEN failed ELSE failed \cup {i})
    /\ UNCHANGED <<store, now, req>>

----------------------------------------------------------------------------
(* The handler, and the history of what it was asked and answered *)

\* the runtime delivers the response and the invocation ends
Return ==
    /\ pc = "done"
    /\ pc' = "idle"
    /\ req' = NoRequest
    /\ resp' = NoResponse
    /\ threw' = "none"
    /\ NoFanOut
    /\ UNCHANGED <<store, now>>

\* the history variables observe the request just answered: a POST answered 201
\* wrote the record of the id it returned, a DELETE answered 200 removed its id
Record ==
    LET wrote == req'.method = "POST" /\ resp'.status = 201
        removed == req'.method = "DELETE" /\ resp'.status = 200
    IN  /\ created' = IF wrote THEN created \cup {resp'.body.data.id.v} ELSE created
        /\ posted' = IF wrote
                      THEN [i \in DOMAIN posted \cup {resp'.body.data.id.v} |->
                                IF i = resp'.body.data.id.v THEN req'.body ELSE posted[i]]
                      ELSE IF removed
                      THEN [i \in DOMAIN posted \ {req'.id.v} |-> posted[i]]
                      ELSE posted

NoRecord == UNCHANGED <<created, posted>>

\* the handler alone: the history variables stay empty
Next ==
    \/ Tick /\ NoRecord
    \/ Options /\ NoRecord
    \/ Unsupported /\ NoRecord
    \/ Post /\ NoRecord
    \/ Delete /\ NoRecord
    \/ GetById /\ NoRecord
    \/ GetList /\ NoRecord
    \/ FetchSettle /\ NoRecord
    \/ Return /\ NoRecord

\* the handler with its history recorded
NextHist ==
    \/ Tick /\ Record
    \/ Options /\ Record
    \/ Unsupported /\ Record
    \/ Post /\ Record
    \/ Delete /\ Record
    \/ GetById /\ Record
    \/ GetList /\ Record
    \/ FetchSettle /\ Record
    \/ Return /\ Record

Spec == Init /\ [][Next]_vars

SpecHist == Init /\ [][NextHist]_vars

----------------------------------------------------------------------------
(* Properties.  A response is read in the states where pc = "done"; threw =
   "none" says that no store call and no parse threw in that invocation. *)

Done == pc = "done"
GetByIdDone == Done /\ req.method = "GET" /\ Truthy(req.id)
GetListDone == Done /\ req.method = "GET" /\ ~Truthy(req.id)
PostDone == Done /\ req.method = "POST"
DeleteDone == Done /\ req.method = "DELETE"

\* a step in which the handler takes up a request
Takes(method) == pc = "idle" /\ req'.method = method

IsObject(body) == body.t = "object"
Has(body, k) == IsObject(body) /\ k \in DOMAIN body.v

\* the record fields C1 names, and the default the spec states for each
C1Fields == {"question", "options", "subject", "difficulty", "tags"}
StatedDefault(k) ==
    CASE k = "subject" -> Str(<< >>)
      [] k = "difficulty" -> Str(Medium)
      [] k = "tags" -> Arr(<< >>)
      [] k = "correctAnswer" -> Null
      [] OTHER -> Undefined
Expected(body, k) == IF Has(body, k) THEN body.v[k] ELSE StatedDefault(k)

\* C1: a POST with question and options (here: a non-empty question, an options
\* array) is answered 201 with the caller's id, or a generated one starting
\* "q_"; and as long as that id is not posted again or deleted, GET ?id=<id>
\* answers 200 with the posted question, options, subject, difficulty and tags
\* (the stated defaults for those omitted).
C1_PostThenGetReturnsPosted ==
    /\ (PostDone /\ threw = "none" /\ Has(req.body, "question") /\ Has(req.body, "options")
            /\ Truthy(req.body.v.question) /\ req.body.v.options.t = "array")
        => /\ resp.status = 201
           /\ IF Has(req.body, "id") /\ Truthy(req.body.v.id)
              THEN resp.body.data.id = req.body.v.id
              ELSE IsPrefix(<<113, 95>>, resp.body.data.id.v)
    /\ (GetByIdDone /\ threw = "none" /\ req.id.v \in DOMAIN posted)
        => /\ resp.status = 200
           /\ \A k \in C1Fields : Prop(resp.body.data, k) = Expected(posted[req.id.v], k)

\* C2 as stated: a POST whose body omits question or options is answered 400
\* and the store is left as it was.
C2_OmittedRequiredIs400 ==
    [][(Takes("POST") /\ req'.body # Malformed
            /\ (~Has(req'.body, "question") \/ ~Has(req'.body, "options")))
        => (resp'.status = 400 /\ store' = store)]_vars

\* C2 amended: a POST whose body is a JSON object that omits question or options
\* is answered 400; a body that is not an object (null) or not JSON is answered
\* 500; in each of these cases the store is left as it was.
C2_OmittedRequiredWritesNothing ==
    [][(Takes("POST") /\ (~Has(req'.body, "question") \/ ~Has(req'.body, "options")))
        => /\ store' = store
           /\ resp'.status = IF IsObject(req'.body) THEN 400 ELSE 500]_vars

C2_Witness ==
    /\ PostDone /\ IsObject(req.body)
    /\ Has(req.body, "question") /\ ~Has(req.body, "options")
    /\ resp.status = 400 /\ DOMAIN store # {}

\* C3: GET ?id=X for an id X that no POST ever created is answered 404.
C3_NeverCreatedIs404 ==
    (GetByIdDone /\ threw = "none" /\ req.id.v \notin created) => resp.status = 404

\* C4: once X was created and DELETE ?id=X was answered 200, GET ?id=X is
\* answered 404 until X is posted again.
C4_DeletedIs404 ==
    (GetByIdDone /\ threw = "none" /\ req.id.v \in created /\ req.id.v \notin DOMAIN posted)
        => resp.status = 404

\* C5: GET without an id is answered 200 with count the number of objects under
\* questions/, data of that length, and the ids of the elements are the paths of
\* those objects with "questions/" and ".json" taken off.
C5_ListCountsEveryObject ==
    (GetListDone /\ threw = "none")
        => /\ resp.status = 200
           /\ resp.body.count = Cardinality(DOMAIN store)
           /\ Len(resp.body.data) = resp.body.count
           /\ \A i \in 1..Len(resp.body.data) :
                PathOf(resp.body.data[i].v.id.v) = blobs[i].pathname
           /\ {blobs[i].pathname : i \in 1..Len(blobs)} = DOMAIN store

C5_Witness ==
    /\ GetListDone /\ resp.status = 200 /\ resp.body.count = 2
    /\ \E i \in 1..2 : DerivedId(blobs[i].pathname) # IdOfPath(blobs[i].pathname)

\* C6: GET by the id a POST returned gives back the posted record: every field
\* the caller supplied has the value supplied, and id and createdAt are added.
C6_RoundTrip ==
    (GetByIdDone /\ threw = "none" /\ req.id.v \in DOMAIN posted)
        => /\ resp.status = 200
           /\ \A k \in DOMAIN posted[req.id.v].v \ {"id"} :
                Prop(resp.body.data, k) = posted[req.id.v].v[k]
           /\ Prop(resp.body.data, "id") = req.id
           /\ Prop(resp.body.data, "createdAt") # Undefined

\* C7 as stated: DELETE without an id parameter is answered 400 and changes
\* nothing; DELETE with any id parameter is answered 200.
C7_AnyIdIs200 ==
    [][(Takes("DELETE") /\ threw' = "none")
        => IF req'.id = Null
           THEN resp'.status = 400 /\ store' = store
           ELSE resp'.status = 200]_vars

\* C7 amended: DELETE without an id parameter, or with an empty one, is answered
\* 400 and changes nothing; DELETE with a non-empty id is answered 200 whether
\* or not questions/<id>.json exists, and the object is not there afterwards.
C7_NonEmptyIdIs200 ==
    [][(Takes("DELETE") /\ threw' = "none")
        => IF req'.id = Null \/ req'.id = Str(<< >>)
           THEN resp'.status = 400 /\ store' = store
           ELSE resp'.status = 200 /\ PathOf(req'.id.v) \notin DOMAIN store']_vars

C7_Witness ==
    /\ DeleteDone /\ req.id = Str(<<97>>) /\ resp.status = 200
    /\ DOMAIN store = {PathOf(<<97, 45>>)}

\* C8: a list-all GET in which the fetch or parse of any listed object failed is
\* answered 500 with an error body, never 200 with a list, whichever fetches
\* had succeeded before and in whatever order they settled.
C8_ListAllOrNothing ==
    GetListDone
        => /\ failed # {} => (resp.status = 500 /\ DOMAIN resp.body = {"error", "message"})
           /\ resp.status = 200
                => (failed = {} /\ pending = {} /\ Len(resp.body.data) = Len(blobs))

C8_Witness ==
    /\ GetListDone /\ resp.status = 500 /\ failed # {}
    /\ (1..Len(blobs)) \ (pending \cup failed) # {}

\* the createdAt of a stored object
CreatedAtOf(object) == Prop(JSONParse(object.content), "createdAt")

\* C9: the createdAt of a record that stays in the store never changes, not even
\* by a POST that carries its id again.
C9_CreatedAtNeverChanges ==
    [][\A p \in DOMAIN store \cap DOMAIN store' :
            CreatedAtOf(store'[p]) = CreatedAtOf(store[p])]_vars

\* C10: OPTIONS, GET, unsupported methods and every request answered 400 or 404
\* leave the store as it was; DELETE ?id=X removes at most the object at
\* questions/X.json and leaves every other object as it was.
C10_Frame ==
    [][/\ (req'.method \in {"OPTIONS", "GET"} \cup OtherMethods \/ resp'.status \in {400, 404})
            => store' = store
       /\ Takes("DELETE")
            => /\ DOMAIN store' \subseteq DOMAIN store
               /\ \A p \in DOMAIN store :
                    (Truthy(req'.id) /\ p = PathOf(req'.id.v)) \/ (p \in DOMAIN store' /\ store'[p] = store[p])]_vars

C10_Witness ==
    /\ DeleteDone /\ req.id = Str(<<97>>) /\ resp.status = 200
    /\ PathOf(<<97>>) \notin DOMAIN store
    /\ \E p \in DOMAIN store : IsPrefix(PrefixOf(<<97>>), p)

====
